---------------------------- MODULE Spec2Model ----------------------------
(***************************************************************************)
(* A model of match_episodes.py: the title normaliser, the part-number     *)
(* extractor, the similarity scorer, the greedy matching pass of           *)
(* do_matching and the renaming loop of rename_files.                      *)
(*                                                                         *)
(* A Python str is a sequence of one-character strings.  The three         *)
(* full-width characters the program names are the tokens FWCOLON, FWQMARK *)
(* and FWBAR.  An Optional value is <<>> (None) or <<v>>.  A float score   *)
(* is the exact rational <<num, den>> (den > 0) of the value the           *)
(* expression denotes.                                                     *)
(***************************************************************************)
EXTENDS Integers, Sequences, FiniteSets, TLC

None == <<>>
Some(v) == <<v>>

\* ------------------------------------------------------------------------
\* Characters and strings
\* ------------------------------------------------------------------------

FWCOLON == "U+FF1A"
FWQMARK == "U+FF1F"
FWBAR == "U+FF5C"

UpperLetters ==
  <<"A","B","C","D","E","F","G","H","I","J","K","L","M",
    "N","O","P","Q","R","S","T","U","V","W","X","Y","Z">>

LowerLetters ==
  <<"a","b","c","d","e","f","g","h","i","j","k","l","m",
    "n","o","p","q","r","s","t","u","v","w","x","y","z">>

Digits == <<"0","1","2","3","4","5","6","7","8","9">>

\* str.lower() on one character.
LowerChar(c) ==
  IF \E k \in 1..26 : UpperLetters[k] = c
    THEN LowerLetters[CHOOSE k \in 1..26 : UpperLetters[k] = c]
    ELSE c

\* str.lower()
Lower(s) == [k \in 1..Len(s) |-> LowerChar(s[k])]

\* The characters \s matches and str.split() splits on.
IsSpace(c) == c \in {" ", "\t", "\n"}

\* The characters \d matches.
IsDigit(c) == \E k \in 1..10 : Digits[k] = c

\* Mutation: digit values counted from one.
DigitValueFromOne(c) == CHOOSE k \in 1..10 : Digits[k] = c

DigitValue(c) == (CHOOSE k \in 1..10 : Digits[k] = c) - 1

\* The characters of [:FWCOLON] in the part-marker patterns.
IsColon(c) == c \in {":", FWCOLON}

\* The characters of [FWBAR|] in the brand-suffix pattern.
IsBar(c) == c \in {"|", FWBAR}

\* s[from..] (1-based), empty when from is past the end.
Drop(s, from) == SubSeq(s, from, Len(s))

\* str.endswith
EndsWith(s, suffix) ==
  /\ Len(suffix) <= Len(s)
  /\ SubSeq(s, Len(s) - Len(suffix) + 1, Len(s)) = suffix

\* A literal of a pattern compiled with re.IGNORECASE matches s at position p.
MatchLitAt(s, p, lit) ==
  /\ p >= 1
  /\ p + Len(lit) - 1 <= Len(s)
  /\ \A k \in 1..Len(lit) : LowerChar(s[p + k - 1]) = LowerChar(lit[k])

\* A greedy \s* or \d* from position p: the first position at or after p
\* whose character is not in the class (Len(s) + 1 when none).  The token
\* that follows each such run in the program's patterns never starts with a
\* character of the class, so backtracking into the run cannot help.
RECURSIVE SkipSpace(_, _)
SkipSpace(s, p) ==
  IF p <= Len(s) /\ IsSpace(s[p]) THEN SkipSpace(s, p + 1) ELSE p

RECURSIVE SkipDigits(_, _)
SkipDigits(s, p) ==
  IF p <= Len(s) /\ IsDigit(s[p]) THEN SkipDigits(s, p + 1) ELSE p

\* int() of a string of decimal digits.
RECURSIVE IntOf(_)
IntOf(s) ==
  IF Len(s) = 0 THEN 0
  ELSE 10 * IntOf(SubSeq(s, 1, Len(s) - 1)) + DigitValue(s[Len(s)])

\* ------------------------------------------------------------------------
\* extract_part_number
\* ------------------------------------------------------------------------

\* The alternation One|Two|...|Ten, in the pattern's order; part_words maps
\* the k-th word to k.
part_words ==
  << <<"o","n","e">>, <<"t","w","o">>, <<"t","h","r","e","e">>,
     <<"f","o","u","r">>, <<"f","i","v","e">>, <<"s","i","x">>,
     <<"s","e","v","e","n">>, <<"e","i","g","h","t">>,
     <<"n","i","n","e">>, <<"t","e","n">> >>

LitPart == <<"P","a","r","t">>
LitPt == <<"P","t">>

\* The k-th word alternative followed by [:FWCOLON] matches at p.
WordThenColon(s, p, k) ==
  /\ MatchLitAt(s, p, part_words[k])
  /\ p + Len(part_words[k]) <= Len(s)
  /\ IsColon(s[p + Len(part_words[k])])

\* \d+ followed by [:FWCOLON] matches at p.
DigitsThenColon(s, p) ==
  LET q == SkipDigits(s, p)
  IN  q > p /\ q <= Len(s) /\ IsColon(s[q])

\* Mutation: the pattern without its ^ anchor.
AnchorStartsAnywhere(s) == 1..(Len(s) + 1)

\* Where a search for a pattern anchored with ^ may start: position 1 only
\* (re.search without re.MULTILINE).
AnchorStarts(s) == {1}

\* ^Part\s+(One|...|Ten|\d+)[:FWCOLON] : the value of group 1 as
\* part_words.get(part, int(part) if part.isdigit() else None), or None
\* when the pattern does not match.
PartFormAt(s, st) ==
  IF ~MatchLitAt(s, st, LitPart) THEN None
  ELSE
    LET p == SkipSpace(s, st + 4)
    IN  IF p = st + 4 THEN None
        ELSE IF \E k \in 1..10 : WordThenColon(s, p, k)
          THEN Some(CHOOSE k \in 1..10 :
                      /\ WordThenColon(s, p, k)
                      /\ \A j \in 1..(k - 1) : ~WordThenColon(s, p, j))
        ELSE IF DigitsThenColon(s, p)
          THEN Some(IntOf(SubSeq(s, p, SkipDigits(s, p) - 1)))
        ELSE None

\* ^Pt\s+(\d+)[:FWCOLON] : int(group 1), or None.
PtFormAt(s, st) ==
  IF ~MatchLitAt(s, st, LitPt) THEN None
  ELSE
    LET p == SkipSpace(s, st + 2)
    IN  IF p = st + 2 THEN None
        ELSE IF DigitsThenColon(s, p)
          THEN Some(IntOf(SubSeq(s, p, SkipDigits(s, p) - 1)))
        ELSE None

\* re.search tries the starts from the left: the least of a set of starts.
Leftmost(starts) == CHOOSE st \in starts : \A u \in starts : st <= u

extract_part_number(title) ==
  LET partStarts == {st \in AnchorStarts(title) : PartFormAt(title, st) # None}
      ptStarts == {st \in AnchorStarts(title) : PtFormAt(title, st) # None}
  IN  IF partStarts # {} THEN PartFormAt(title, Leftmost(partStarts))
      ELSE IF ptStarts # {} THEN PtFormAt(title, Leftmost(ptStarts))
      ELSE None

\* ------------------------------------------------------------------------
\* normalize_title
\* ------------------------------------------------------------------------

BRAND ==
  <<"B","E","H","I","N","D"," ","T","H","E"," ",
    "B","A","S","T","A","R","D","S">>

\* \s*[FWBAR|]\s*BEHIND THE BASTARDS\s*$ (re.IGNORECASE) matches s from
\* position st.  The trailing \s* is greedy, so a match always runs to the
\* end of the string.
BrandSuffixAt(s, st) ==
  LET p1 == SkipSpace(s, st)
  IN  /\ p1 <= Len(s)
      /\ IsBar(s[p1])
      /\ LET p2 == SkipSpace(s, p1 + 1)
         IN  /\ MatchLitAt(s, p2, BRAND)
             /\ SkipSpace(s, p2 + Len(BRAND)) = Len(s) + 1

\* re.sub of the brand-suffix pattern by '': the leftmost match is cut; it
\* ends at the end of the string, so no second match follows it.
StripBrandOnce(s) ==
  IF \E st \in 1..Len(s) : BrandSuffixAt(s, st)
    THEN SubSeq(s, 1, (CHOOSE st \in 1..Len(s) :
                          /\ BrandSuffixAt(s, st)
                          /\ \A u \in 1..(st - 1) : ~BrandSuffixAt(s, u)) - 1)
    ELSE s

\* .replace(FWCOLON, ':').replace(FWQMARK, '?').replace(FWBAR, '|')
FoldChar(c) ==
  IF c = FWCOLON THEN ":"
  ELSE IF c = FWQMARK THEN "?"
  ELSE IF c = FWBAR THEN "|"
  ELSE c

FoldUnicode(s) == [k \in 1..Len(s) |-> FoldChar(s[k])]

RECURSIVE SkipNonSpace(_, _)
SkipNonSpace(s, p) ==
  IF p <= Len(s) /\ ~IsSpace(s[p]) THEN SkipNonSpace(s, p + 1) ELSE p

\* ' '.join(s.split())
RECURSIVE JoinSplit(_)
JoinSplit(s) ==
  LET p == SkipSpace(s, 1)
  IN  IF p > Len(s) THEN <<>>
      ELSE LET q == SkipNonSpace(s, p)
               rest == JoinSplit(Drop(s, q))
           IN  IF rest = <<>> THEN SubSeq(s, p, q - 1)
               ELSE SubSeq(s, p, q - 1) \o <<" ">> \o rest

\* str.strip()
RECURSIVE RStrip(_)
RStrip(s) ==
  IF Len(s) > 0 /\ IsSpace(s[Len(s)]) THEN RStrip(SubSeq(s, 1, Len(s) - 1))
  ELSE s

Strip(s) == RStrip(Drop(s, SkipSpace(s, 1)))

normalize_title(title) == Strip(JoinSplit(FoldUnicode(StripBrandOnce(title))))

\* ------------------------------------------------------------------------
\* normalize_for_comparison
\* ------------------------------------------------------------------------

\* ^Part (One|...|Ten|\d+):\s* matches at the start of s: the position after
\* the match, or 0.  One literal space, an ASCII colon.
PartPrefixEnd(s) ==
  IF ~(MatchLitAt(s, 1, LitPart) /\ Len(s) >= 5 /\ s[5] = " ") THEN 0
  ELSE
    LET WordColon(k) ==
          /\ MatchLitAt(s, 6, part_words[k])
          /\ 6 + Len(part_words[k]) <= Len(s)
          /\ s[6 + Len(part_words[k])] = ":"
        q == SkipDigits(s, 6)
    IN  IF \E k \in 1..10 : WordColon(k)
          THEN LET k == CHOOSE k \in 1..10 :
                          WordColon(k) /\ \A j \in 1..(k - 1) : ~WordColon(j)
               IN  SkipSpace(s, 6 + Len(part_words[k]) + 1)
        ELSE IF q > 6 /\ q <= Len(s) /\ s[q] = ":"
          THEN SkipSpace(s, q + 1)
        ELSE 0

\* ^Pt\s+\d+[:FWCOLON]\s* matches at the start of s: the position after the
\* match, or 0.
PtPrefixEnd(s) ==
  IF ~MatchLitAt(s, 1, LitPt) THEN 0
  ELSE
    LET p == SkipSpace(s, 3)
    IN  IF p = 3 \/ ~DigitsThenColon(s, p) THEN 0
        ELSE SkipSpace(s, SkipDigits(s, p) + 1)

CutPrefix(s, e) == IF e = 0 THEN s ELSE Drop(s, e)

normalize_for_comparison(title) ==
  LET t1 == CutPrefix(title, PartPrefixEnd(title))
      t2 == CutPrefix(t1, PtPrefixEnd(t1))
  IN  normalize_title(t2)

\* ------------------------------------------------------------------------
\* difflib.SequenceMatcher(None, a, b).ratio()  (no junk; autojunk needs
\* len(b) >= 200)
\* ------------------------------------------------------------------------

\* The length of the common run of a[i..ahi] and b[j..bhi].
RECURSIVE RunLen(_, _, _, _, _, _)
RunLen(a, b, i, j, ahi, bhi) ==
  IF i <= ahi /\ j <= bhi /\ a[i] = b[j]
    THEN 1 + RunLen(a, b, i + 1, j + 1, ahi, bhi)
    ELSE 0

\* find_longest_match over a[alo..ahi], b[blo..bhi] (inclusive): <<i, j, k>>
\* with k maximal, then i minimal, then j minimal; <<alo, blo, 0>> when no
\* character is common.
LongestMatch(a, b, alo, ahi, blo, bhi) ==
  LET P == (alo..ahi) \X (blo..bhi)
      R(x) == RunLen(a, b, x[1], x[2], ahi, bhi)
      sizes == {R(x) : x \in P}
      k == CHOOSE n \in sizes : \A m \in sizes : m <= n
      I == {x[1] : x \in {y \in P : R(y) = k}}
      bi == CHOOSE n \in I : \A m \in I : n <= m
      J == {j \in blo..bhi : R(<<bi, j>>) = k}
      bj == CHOOSE n \in J : \A m \in J : n <= m
  IN  IF k = 0 THEN <<alo, blo, 0>> ELSE <<bi, bj, k>>

\* The sum of the sizes of get_matching_blocks().
RECURSIVE MatchCount(_, _, _, _, _, _)
MatchCount(a, b, alo, ahi, blo, bhi) ==
  IF alo > ahi \/ blo > bhi THEN 0
  ELSE
    LET m == LongestMatch(a, b, alo, ahi, blo, bhi)
    IN  IF m[3] = 0 THEN 0
        ELSE m[3] + MatchCount(a, b, alo, m[1] - 1, blo, m[2] - 1)
                  + MatchCount(a, b, m[1] + m[3], ahi, m[2] + m[3], bhi)

\* Mutation: two empty strings have ratio 0.
RatioEmptyIsZero(a, b) ==
  IF Len(a) + Len(b) = 0 THEN <<0, 1>>
  ELSE <<2 * MatchCount(a, b, 1, Len(a), 1, Len(b)), Len(a) + Len(b)>>

\* ratio(): 2.0 * matches / length, 1.0 when both are empty.
Ratio(a, b) ==
  IF Len(a) + Len(b) = 0 THEN <<1, 1>>
  ELSE <<2 * MatchCount(a, b, 1, Len(a), 1, Len(b)), Len(a) + Len(b)>>

\* Comparisons of two scores.
ScoreGT(x, y) == x[1] * y[2] > y[1] * x[2]
ScoreEQ(x, y) == x[1] * y[2] = y[1] * x[2]

\* ------------------------------------------------------------------------
\* similarity_score
\* ------------------------------------------------------------------------

\* Mutation: the weighted average whatever the part numbers are.
similarity_score_no_penalty(a, b) ==
  LET base == Ratio(Lower(normalize_for_comparison(a)),
                    Lower(normalize_for_comparison(b)))
      full == Ratio(Lower(normalize_title(a)), Lower(normalize_title(b)))
  IN  <<7 * full[1] * base[2] + 3 * base[1] * full[2],
        10 * full[2] * base[2]>>

similarity_score(a, b) ==
  LET part_a == extract_part_number(a)
      part_b == extract_part_number(b)
      base == Ratio(Lower(normalize_for_comparison(a)),
                    Lower(normalize_for_comparison(b)))
      full == Ratio(Lower(normalize_title(a)), Lower(normalize_title(b)))
  IN  IF part_a # None /\ part_b # None /\ part_a # part_b
        THEN <<3 * base[1], 10 * base[2]>>
        ELSE <<7 * full[1] * base[2] + 3 * base[1] * full[2],
               10 * full[2] * base[2]>>

\* ------------------------------------------------------------------------
\* find_best_match
\* ------------------------------------------------------------------------

LitMp3 == <<".","m","p","3">>

\* str.replace(old, ''): every non-overlapping occurrence, left to right.
RECURSIVE RemoveAll(_, _)
RemoveAll(s, old) ==
  IF Len(s) = 0 THEN s
  ELSE IF Len(s) >= Len(old) /\ SubSeq(s, 1, Len(old)) = old
    THEN RemoveAll(Drop(s, Len(old) + 1), old)
  ELSE <<s[1]>> \o RemoveAll(Drop(s, 2), old)

\* mp3_title = mp3_file.replace('.mp3', '')
mp3_title(mp3_file) == RemoveAll(mp3_file, LitMp3)

\* The playlist entries and the file names the matching pass is run on.
PlaylistTitles ==
  { <<"E","p">>,
    <<"N","o">>,
    <<"P","a","r","t"," ","O","n","e",":"," ","E","p">> }

Mp3Names ==
  { <<"E","p",".","m","p","3">>,
    <<"P","t"," ","2",":"," ","E","p",".","m","p","3">>,
    <<"E",".","m","p","3","p",".","m","p","3">> }

\* similarity_score(playlist_name, mp3_title) of every pair of the names
\* above.
ScoreTable ==
  [t \in PlaylistTitles, f \in Mp3Names |->
     similarity_score(t, mp3_title(f))]

\* Mutation: a candidate must reach one half to be taken.
InitialBestScoreHalf == <<1, 2>>

\* best_score = 0
InitialBestScore == <<0, 1>>

\* Mutation: the consumed set is not consulted.
IsSkippedNever(idx, used) == FALSE

\* if idx in used_indices: continue
IsSkipped(idx, used) == idx \in used

\* Mutation: >= in place of >.
ImprovesOrTies(score, best_score) ==
  ScoreGT(score, best_score) \/ ScoreEQ(score, best_score)

\* The loop of find_best_match from index idx (0-based) with the best so far.
\* if score > best_score
Improves(score, best_score) == ScoreGT(score, best_score)

\* scores[name, file] is similarity_score(name, mp3_title(file)).
RECURSIVE ScanFrom(_, _, _, _, _, _)
ScanFrom(scores, playlist_name, files, used, idx, best) ==
  IF idx >= Len(files) THEN best
  ELSE IF IsSkipped(idx, used)
    THEN ScanFrom(scores, playlist_name, files, used, idx + 1, best)
  ELSE
    LET score == scores[playlist_name, files[idx + 1]]
    IN  IF Improves(score, best.best_score)
          THEN ScanFrom(scores, playlist_name, files, used, idx + 1,
                        [best_match |-> Some(files[idx + 1]),
                         best_score |-> score,
                         best_idx |-> Some(idx)])
          ELSE ScanFrom(scores, playlist_name, files, used, idx + 1, best)

\* The returned (best_match, best_score, best_idx).
find_best_match(scores, playlist_name, files, used) ==
  ScanFrom(scores, playlist_name, files, used, 0,
           [best_match |-> None, best_score |-> InitialBestScore,
            best_idx |-> None])

\* ------------------------------------------------------------------------
\* State
\* ------------------------------------------------------------------------

VARIABLES
  pc,            \* where the modelled run stands
  title,         \* the argument of the text function under study
  title_b,       \* similarity_score: its second argument
  out,           \* what the text function returned, None before the call
  out2,          \* what it returned on its own result
  playlist,      \* do_matching: the playlist entries
  mp3_files,     \* do_matching: the file names of files1.txt
  used_indices,  \* do_matching: the consumed candidate indices
  matches,       \* do_matching: the records; rename_files: the loaded JSON
  i,             \* do_matching: the number of entries processed
  calls,         \* history: of each find_best_match, the consumed set it
                 \* was given, its result and the mp3_title it scored
  score_memo,    \* similarity_score on the names of the run, evaluated once
  files1,        \* the full paths listed in files1.txt, in file order
  fs,            \* the paths that exist on disk
  dry_run,       \* rename_files: its dry_run argument
  pad_width,     \* rename_files: its pad_width argument
  pos,           \* rename_files: the number of records processed
  counts,        \* rename_files: renamed_count, skipped_count, error_count
  run,           \* the number of rename_files calls started
  moves,         \* history: every shutil.move performed
  fs_hist,       \* history: fs at the start, then after each completed call
  modes,         \* history: dry_run of each completed call
  returns        \* history: what each completed call returned

vars ==
  <<pc, title, title_b, out, out2, playlist, mp3_files, used_indices,
    matches, i, calls, score_memo, files1, fs, dry_run, pad_width, pos, counts,
    run, moves, fs_hist, modes, returns>>

textVars == <<title, title_b, out, out2>>
matchVars == <<playlist, mp3_files, used_indices, i, calls, score_memo>>
renameVars ==
  <<files1, fs, dry_run, pad_width, pos, counts, run, moves, fs_hist, modes,
    returns>>

TextIdle == title = <<>> /\ title_b = <<>> /\ out = None /\ out2 = None

MatchIdle ==
  /\ playlist = <<>>
  /\ mp3_files = <<>>
  /\ used_indices = {}
  /\ i = 0
  /\ calls = <<>>
  /\ score_memo = <<>>

RenameIdle ==
  /\ files1 = <<>>
  /\ fs = {}
  /\ dry_run = TRUE
  /\ pad_width = 0
  /\ pos = 0
  /\ counts = <<0, 0, 0>>
  /\ run = 0
  /\ moves = <<>>
  /\ fs_hist = <<>>
  /\ modes = <<>>
  /\ returns = <<>>

\* The sequences over S of length at most n.
SeqsUpTo(S, n) == UNION {[1..m -> S] : m \in 0..n}

\* ------------------------------------------------------------------------
\* do_matching: the matching pass
\* ------------------------------------------------------------------------

MaxTargets == 3
MaxFiles == 3

\* if best_match:
Truthy(opt) == opt # None /\ opt[1] # <<>>

\* Mutation: enumerate(playlist) without the start value 1.
MatchRecordFromZero(order, playlist_entry, r) ==
  [order |-> order - 1,
   playlist_name |-> playlist_entry,
   mp3_file |-> r.best_match[1],
   match_score |-> r.best_score,
   file_index |-> r.best_idx[1]]

\* The record appended for playlist entry number order (1-based).
MatchRecord(order, playlist_entry, r) ==
  [order |-> order,
   playlist_name |-> playlist_entry,
   mp3_file |-> r.best_match[1],
   match_score |-> r.best_score,
   file_index |-> r.best_idx[1]]

\* Mutation: the new record replaces the records made so far.
AppendRecordReplacing(records, rec) == <<rec>>

\* matches.append({...})
AppendRecord(records, rec) == Append(records, rec)

MatchInit ==
  /\ score_memo = ScoreTable
  /\ pc = "match"
  /\ playlist \in SeqsUpTo(PlaylistTitles, MaxTargets)
  /\ mp3_files \in SeqsUpTo(Mp3Names, MaxFiles)
  /\ used_indices = {}
  /\ matches = <<>>
  /\ i = 0
  /\ calls = <<>>
  /\ TextIdle
  /\ RenameIdle

\* One iteration of "for i, playlist_entry in enumerate(playlist, 1)".
MatchStep ==
  /\ pc = "match"
  /\ i < Len(playlist)
  /\ LET playlist_entry == playlist[i + 1]
         r == find_best_match(score_memo, playlist_entry, mp3_files,
                              used_indices)
         scored == {idx \in 0..(Len(mp3_files) - 1) :
                      ~IsSkipped(idx, used_indices)}
     IN  /\ calls' =
              Append(calls,
                     [used |-> used_indices, ret |-> r,
                      titles |-> [idx \in scored |->
                                    mp3_title(mp3_files[idx + 1])]])
         /\ IF Truthy(r.best_match)
              THEN /\ used_indices' = used_indices \cup {r.best_idx[1]}
                   /\ matches' =
                        AppendRecord(matches,
                                     MatchRecord(i + 1, playlist_entry, r))
              ELSE UNCHANGED <<used_indices, matches>>
  /\ i' = i + 1
  /\ UNCHANGED <<pc, playlist, mp3_files, score_memo>>
  /\ UNCHANGED textVars
  /\ UNCHANGED renameVars

\* The loop is over: matched_episodes.json is written.
SaveMatches ==
  /\ pc = "match"
  /\ i = Len(playlist)
  /\ pc' = "saved"
  /\ UNCHANGED <<matches>>
  /\ UNCHANGED matchVars
  /\ UNCHANGED textVars
  /\ UNCHANGED renameVars

MatchNext == MatchStep \/ SaveMatches

SpecMatch == MatchInit /\ [][MatchNext]_vars

\* ------------------------------------------------------------------------
\* Properties of the matching pass
\* ------------------------------------------------------------------------

\* The candidate indices (0-based) not in the consumed set.
Unconsumed(used) == {idx \in 0..(Len(mp3_files) - 1) : idx \notin used}

\* The score of candidate idx for the k-th playlist entry.
CandidateScore(k, idx) == score_memo[playlist[k], mp3_files[idx + 1]]

\* The consumed set as the k-th iteration leaves it.
UsedAfter(k) == IF k < Len(calls) THEN calls[k + 1].used ELSE used_indices

Absent(r) == r.best_match = None /\ r.best_idx = None

\* C1: no two match records carry the same file_index.
C1_DistinctFileIndex ==
  \A a, b \in DOMAIN matches :
    a # b => matches[a].file_index # matches[b].file_index

\* Two records for the same playlist name, which prefer the same candidate.
C1_Witness ==
  /\ pc = "saved"
  /\ \E a, b \in DOMAIN matches :
       a # b /\ matches[a].playlist_name = matches[b].playlist_name

\* C2 as stated: the pass leaves one record per target, so that a target
\* with no selected candidate has a record too.
C2_OneRecordPerTarget == pc = "saved" => Len(matches) = Len(playlist)

\* C2 amended: the records are, in playlist order, those of the targets for
\* which a candidate was selected, each with its target's 1-based position,
\* name, candidate, score and index; a target without a selected candidate
\* has no record.
C2_OneRecordPerSelectedTarget ==
  LET sel == {k \in DOMAIN calls : calls[k].ret.best_match # None}
  IN  /\ Len(matches) = Cardinality(sel)
      /\ \A n \in DOMAIN matches :
           LET m == matches[n]
           IN  /\ m.order \in sel
               /\ m.playlist_name = playlist[m.order]
               /\ calls[m.order].ret.best_match = Some(m.mp3_file)
               /\ calls[m.order].ret.best_idx = Some(m.file_index)
               /\ calls[m.order].ret.best_score = m.match_score
      /\ \A n, m \in DOMAIN matches :
           n < m => matches[n].order < matches[m].order

\* A finished pass in which some, but not all, targets have a record.
C2_Witness ==
  /\ pc = "saved"
  /\ Len(matches) >= 1
  /\ Len(matches) < Len(playlist)

\* C3 as stated: while a candidate is unconsumed, find_best_match returns
\* one of the unconsumed candidates.
C3_AbsentOnlyWhenExhausted ==
  \A k \in DOMAIN calls :
    Unconsumed(calls[k].used) # {} =>
      /\ calls[k].ret.best_match # None
      /\ calls[k].ret.best_idx[1] \in Unconsumed(calls[k].used)

\* C3 amended: find_best_match returns an unconsumed candidate exactly when
\* some unconsumed candidate scores above 0; when candidates remain and
\* each scores 0 it returns the absent match.
C3_AbsentOnlyWhenNoPositiveScore ==
  \A k \in DOMAIN calls :
    LET positive == {idx \in Unconsumed(calls[k].used) :
                       ScoreGT(CandidateScore(k, idx), <<0, 1>>)}
        r == calls[k].ret
    IN  /\ positive # {} =>
             r.best_match # None /\ r.best_idx[1] \in Unconsumed(calls[k].used)
        /\ positive = {} => Absent(r) /\ r.best_score[1] = 0

\* Candidates remain, each scores 0, and the call returned absent.
C3_Witness ==
  \E k \in DOMAIN calls :
    /\ Unconsumed(calls[k].used) # {}
    /\ \A idx \in Unconsumed(calls[k].used) :
         ScoreEQ(CandidateScore(k, idx), <<0, 1>>)
    /\ Absent(calls[k].ret)

\* C4: once every candidate index is consumed (or there is no candidate),
\* this and every later call return the absent match with score 0 and the
\* consumed set stays as it is.
C4_Exhaustion ==
  \A k \in DOMAIN calls :
    Unconsumed(calls[k].used) = {} =>
      \A n \in k..Len(calls) :
        /\ Absent(calls[n].ret)
        /\ calls[n].ret.best_score[1] = 0
        /\ UsedAfter(n) = calls[k].used

\* A call made with every index of a non-empty list consumed, and a later
\* call after it.
C4_Witness ==
  \E k \in DOMAIN calls :
    /\ Len(mp3_files) >= 1
    /\ Unconsumed(calls[k].used) = {}
    /\ k < Len(calls)

\* C5: a returned candidate is unconsumed, its score is the greatest score
\* of the unconsumed candidates, and it has the lowest index of those that
\* attain it.
C5_SelectionRule ==
  \A k \in DOMAIN calls :
    LET r == calls[k].ret
        U == Unconsumed(calls[k].used)
    IN  r.best_match # None =>
          /\ r.best_idx[1] \in U
          /\ r.best_match = Some(mp3_files[r.best_idx[1] + 1])
          /\ ScoreEQ(r.best_score, CandidateScore(k, r.best_idx[1]))
          /\ \A j \in U : ~ScoreGT(CandidateScore(k, j), r.best_score)
          /\ \A j \in U :
               ScoreEQ(CandidateScore(k, j), r.best_score) => r.best_idx[1] <= j

\* A call with a consumed index in which two unconsumed candidates tie at
\* the top.
C5_Witness ==
  \E k \in DOMAIN calls :
    /\ calls[k].used # {}
    /\ calls[k].ret.best_match # None
    /\ \E j \in Unconsumed(calls[k].used) :
         /\ j > calls[k].ret.best_idx[1]
         /\ ScoreEQ(CandidateScore(k, j), calls[k].ret.best_score)

\* C15: every iteration either adds to the consumed set exactly the index
\* it selected, which was not in the set, or (absent match) leaves the set
\* as it was; so no index is ever removed, and the size of the set is the
\* number of records.
C15_ConsumedSetGrows ==
  /\ \A k \in DOMAIN calls :
       LET r == calls[k].ret
           before == calls[k].used
           after == UsedAfter(k)
       IN  IF r.best_match # None
             THEN /\ r.best_idx[1] \notin before
                  /\ after = before \cup {r.best_idx[1]}
                  /\ Cardinality(after) = Cardinality(before) + 1
             ELSE after = before
  /\ Cardinality(used_indices) = Len(matches)

\* A finished pass with a selecting iteration followed by an absent one
\* that had candidates left.
C15_Witness ==
  /\ pc = "saved"
  /\ \E k, n \in DOMAIN calls :
       /\ k < n
       /\ calls[k].ret.best_match # None
       /\ calls[n].ret.best_match = None
       /\ Unconsumed(calls[n].used) # {}
       /\ UsedAfter(n) = calls[n].used

\* The file name without its final .mp3 extension.
WithoutExtension(mp3_file) ==
  IF EndsWith(mp3_file, LitMp3)
    THEN SubSeq(mp3_file, 1, Len(mp3_file) - Len(LitMp3))
    ELSE mp3_file

\* C20: the title scored for a candidate is its file name without the
\* final .mp3 extension; a .mp3 elsewhere in the name is kept.
C20_OnlyExtensionRemoved ==
  \A k \in DOMAIN calls :
    \A idx \in DOMAIN calls[k].titles :
      calls[k].titles[idx] = WithoutExtension(mp3_files[idx + 1])

\* The records of a whole pass over the list targets with the candidates
\* mp3_files, from entry k on, given the consumed set and the records so
\* far.
RECURSIVE PassOver(_, _, _, _)
PassOver(targets, k, used, recs) ==
  IF k > Len(targets) THEN recs
  ELSE
    LET r == find_best_match(score_memo, targets[k], mp3_files, used)
    IN  IF Truthy(r.best_match)
          THEN PassOver(targets, k + 1, used \cup {r.best_idx[1]},
                        Append(recs, MatchRecord(k, targets[k], r)))
          ELSE PassOver(targets, k + 1, used, recs)

\* The records made so far for the first n targets.
RecordsUpTo(n) ==
  SubSeq(matches, 1,
         Cardinality({j \in DOMAIN matches : matches[j].order <= n}))

\* C16: at every point of the pass, and for every n up to the number of
\* targets processed, the records held for targets 1..n are the records
\* of a pass over the first n targets alone: processing later targets
\* changes no earlier record.
C16_NoBacktracking ==
  \A n \in 0..i :
    RecordsUpTo(n) = PassOver(SubSeq(playlist, 1, n), 1, {}, <<>>)

\* A finished pass in which a later target was left with a candidate that
\* scores lower for it than the one an earlier target consumed.
C16_Witness ==
  /\ pc = "saved"
  /\ \E a, b \in DOMAIN matches :
       /\ a < b
       /\ ScoreGT(CandidateScore(matches[b].order, matches[a].file_index),
                  matches[b].match_score)

\* ------------------------------------------------------------------------
\* rename_files
\* ------------------------------------------------------------------------

\* str(n) for n >= 0
RECURSIVE StrOf(_)
StrOf(n) ==
  IF n < 10 THEN <<Digits[n + 1]>>
  ELSE StrOf(n \div 10) \o <<Digits[(n % 10) + 1]>>

\* str.zfill(width) of a string without sign
RECURSIVE ZFill(_, _)
ZFill(s, width) == IF Len(s) >= width THEN s ELSE ZFill(<<"0">> \o s, width)

\* Mutation: the order is not padded.
OrderPrefixUnpadded(order, width) == StrOf(order)

\* order_prefix = str(order).zfill(pad_width)
OrderPrefix(order, width) == ZFill(StrOf(order), width)

\* re.match(r'^\d{pad_width}_', mp3_file)
HasOrderPrefix(mp3_file, width) ==
  /\ Len(mp3_file) >= width + 1
  /\ \A k \in 1..width : IsDigit(mp3_file[k])
  /\ mp3_file[width + 1] = "_"

\* get_full_path_for_mp3: the first listed path that ends with the name.
get_full_path_for_mp3(mp3_filename, listing) ==
  IF \E k \in DOMAIN listing : EndsWith(listing[k], mp3_filename)
    THEN Some(listing[CHOOSE k \in DOMAIN listing :
                        /\ EndsWith(listing[k], mp3_filename)
                        /\ \A j \in 1..(k - 1) :
                             ~EndsWith(listing[j], mp3_filename)])
    ELSE None

\* str.rfind('/') + 1: the length of the part up to the last slash.
RECURSIVE HeadLen(_)
HeadLen(path) ==
  IF Len(path) = 0 \/ path[Len(path)] = "/" THEN Len(path)
  ELSE HeadLen(SubSeq(path, 1, Len(path) - 1))

RECURSIVE RStripSlash(_)
RStripSlash(s) ==
  IF Len(s) > 0 /\ s[Len(s)] = "/" THEN RStripSlash(SubSeq(s, 1, Len(s) - 1))
  ELSE s

\* os.path.dirname
Dirname(path) ==
  LET head == SubSeq(path, 1, HeadLen(path))
  IN  IF RStripSlash(head) = <<>> THEN head ELSE RStripSlash(head)

\* pathlib.Path(path).name of a path that does not end with a slash
Basename(path) == Drop(path, HeadLen(path) + 1)

\* os.path.join(directory, name)
PathJoin(directory, name) ==
  IF Len(name) > 0 /\ name[1] = "/" THEN name
  ELSE IF directory = <<>> \/ directory[Len(directory)] = "/"
    THEN directory \o name
  ELSE directory \o <<"/">> \o name

\* new_filename = f"{order_prefix}_{mp3_file}"
NewFilename(order, mp3_file, width) ==
  OrderPrefix(order, width) \o <<"_">> \o mp3_file

\* Mutation: dry_run is not consulted.
MovesFilesAlways(dry) == TRUE

\* if not dry_run:
MovesFiles(dry) == ~dry

\* shutil.move(src, dst) of a file on one filesystem: os.rename, which
\* replaces an existing dst.
MoveFile(files, src, dst) == (files \ {src}) \cup {dst}

\* pad_width: 3 unless --pad is given.
DefaultPadWidth == 3

PadWidths == {DefaultPadWidth - 1, DefaultPadWidth}

MaxOrder == 2
MaxRuns == 2

DirA == <<"/","m","n","t","/","u","s","e","r","/","a">>
DirB == <<"/","m","n","t","/","u","s","e","r","/","b">>
NameX == <<"x",".","m","p","3">>
Name02X == <<"0","2","_">> \o NameX
Name002X == <<"0">> \o Name02X

\* The files the listing may name.
ListedPaths ==
  { PathJoin(DirA, NameX), PathJoin(DirA, Name02X),
    PathJoin(DirA, Name002X), PathJoin(DirB, NameX) }

IsInjective(f) == \A a, b \in DOMAIN f : a # b => f[a] # f[b]

\* The listings: each file at most once, in any order.
Listings ==
  {l \in SeqsUpTo(ListedPaths, Cardinality(ListedPaths)) : IsInjective(l)}

\* What do_matching can have written for a listing: records of ascending
\* order, each naming another listed file by its name and index.
RecordLists(listing) ==
  LET N == Len(listing)
      picks == {q \in SeqsUpTo((1..MaxOrder) \X (0..(N - 1)), MaxOrder) :
                  /\ \A a, b \in DOMAIN q : a < b => q[a][1] < q[b][1]
                  /\ \A a, b \in DOMAIN q : a # b => q[a][2] # q[b][2]}
  IN  {[k \in DOMAIN q |->
          [order |-> q[k][1],
           mp3_file |-> Basename(listing[q[k][2] + 1]),
           file_index |-> q[k][2]]] : q \in picks}

RenameInit ==
  /\ pc = "idle"
  /\ files1 \in Listings
  /\ fs = {files1[k] : k \in DOMAIN files1}
  /\ matches \in RecordLists(files1)
  /\ pad_width \in PadWidths
  /\ dry_run = TRUE
  /\ pos = 0
  /\ counts = <<0, 0, 0>>
  /\ run = 0
  /\ moves = <<>>
  /\ fs_hist = <<fs>>
  /\ modes = <<>>
  /\ returns = <<>>
  /\ TextIdle
  /\ MatchIdle

\* rename_files is called (dry_run=d) and loads matched_episodes.json.
StartRename ==
  /\ pc = "idle"
  /\ run < MaxRuns
  /\ \E d \in BOOLEAN : dry_run' = d
  /\ run' = run + 1
  /\ pos' = 0
  /\ counts' = <<0, 0, 0>>
  /\ pc' = "rename"
  /\ UNCHANGED <<matches, files1, fs, pad_width, moves, fs_hist, modes,
                 returns>>
  /\ UNCHANGED textVars
  /\ UNCHANGED matchVars

\* One iteration of "for match in matches".
RenameStep ==
  /\ pc = "rename"
  /\ pos < Len(matches)
  /\ LET order == matches[pos + 1].order
         mp3_file == matches[pos + 1].mp3_file
         full_path == get_full_path_for_mp3(mp3_file, files1)
         new_path == PathJoin(Dirname(full_path[1]),
                              NewFilename(order, mp3_file, pad_width))
     IN  IF HasOrderPrefix(mp3_file, pad_width)
           THEN /\ counts' = <<counts[1], counts[2] + 1, counts[3]>>
                /\ UNCHANGED <<fs, moves>>
         ELSE IF full_path = None
           THEN /\ counts' = <<counts[1], counts[2], counts[3] + 1>>
                /\ UNCHANGED <<fs, moves>>
         ELSE IF ~MovesFiles(dry_run)
           THEN /\ counts' = <<counts[1] + 1, counts[2], counts[3]>>
                /\ UNCHANGED <<fs, moves>>
         ELSE IF full_path[1] \in fs
           THEN /\ fs' = MoveFile(fs, full_path[1], new_path)
                /\ moves' = Append(moves,
                                   [src |-> full_path[1], dst |-> new_path,
                                    order |-> order, mp3_file |-> mp3_file,
                                    run |-> run])
                /\ counts' = <<counts[1] + 1, counts[2], counts[3]>>
         ELSE /\ counts' = <<counts[1], counts[2], counts[3] + 1>>
              /\ UNCHANGED <<fs, moves>>
  /\ pos' = pos + 1
  /\ UNCHANGED <<pc, matches, files1, dry_run, pad_width, run, fs_hist, modes,
                 returns>>
  /\ UNCHANGED textVars
  /\ UNCHANGED matchVars

\* The loop is over: rename_files returns its three counts.
FinishRename ==
  /\ pc = "rename"
  /\ pos = Len(matches)
  /\ pc' = "idle"
  /\ fs_hist' = Append(fs_hist, fs)
  /\ modes' = Append(modes, dry_run)
  /\ returns' = Append(returns, counts)
  /\ UNCHANGED <<matches, files1, fs, dry_run, pad_width, pos, counts, run,
                 moves>>
  /\ UNCHANGED textVars
  /\ UNCHANGED matchVars

RenameNext == StartRename \/ RenameStep \/ FinishRename

SpecRename == RenameInit /\ [][RenameNext]_vars

\* ------------------------------------------------------------------------
\* Properties of rename_files
\* ------------------------------------------------------------------------

\* C6 as stated: a live call that follows a live call, with the same records
\* and the same listing, leaves the files as the first call left them.
C6_RenameIdempotent ==
  \A r \in 2..Len(modes) :
    (~modes[r - 1] /\ ~modes[r]) => fs_hist[r + 1] = fs_hist[r]

\* C7: every move goes to a path in the directory of its source whose name
\* is the record's order in decimal, padded with zeros to pad_width digits,
\* then an underscore, then the record's file name unchanged.
C7_NewNameKeepsOriginal ==
  \A n \in DOMAIN moves :
    LET m == moves[n]
        name == Drop(m.dst, HeadLen(m.dst) + 1)
        w == Len(name) - Len(m.mp3_file) - 1
    IN  /\ SubSeq(m.dst, 1, HeadLen(m.dst)) = SubSeq(m.src, 1, HeadLen(m.src))
        /\ EndsWith(name, m.mp3_file)
        /\ w >= pad_width
        /\ name[w + 1] = "_"
        /\ \A k \in 1..w : IsDigit(name[k])
        /\ IntOf(SubSeq(name, 1, w)) = m.order
        /\ w > pad_width => name[1] # "0"

\* A move was made for a record whose order is not 1.
C7_Witness ==
  \E n \in DOMAIN moves : moves[n].order > 1 /\ moves[n].src # moves[n].dst

\* C8: a call with dry_run=True moves no file and leaves the files on disk
\* as they were when it started.
C8_DryRunChangesNothing ==
  /\ \A r \in DOMAIN modes : modes[r] => fs_hist[r + 1] = fs_hist[r]
  /\ (pc = "rename" /\ dry_run) => fs = fs_hist[Len(fs_hist)]
  /\ \A n \in DOMAIN moves :
       /\ moves[n].run \in DOMAIN modes => ~modes[moves[n].run]
       /\ (moves[n].run = run /\ pc = "rename") => ~dry_run

\* A finished dry call that reported a rename it would make.
C8_Witness ==
  \E r \in DOMAIN modes : modes[r] /\ returns[r][1] >= 1

\* C17: the path get_full_path_for_mp3 resolves a record's file name to
\* has that very name as its final component, so every move takes the file
\* the record names.
C17_MovesTheNamedFile ==
  \A n \in DOMAIN moves : Basename(moves[n].src) = moves[n].mp3_file

\* C18: no move of a live call replaces an existing file, so every
\* completed call leaves as many files on disk as it found.
C18_NoFileDestroyed ==
  \A r \in DOMAIN modes : Cardinality(fs_hist[r + 1]) = Cardinality(fs_hist[r])

\* ------------------------------------------------------------------------
\* normalize_title applied to a title, then to its own result
\* ------------------------------------------------------------------------

MaxSegs == 4

\* BEHIND THE BASTARDS with two spaces after BEHIND.
BrandWide ==
  <<"B","E","H","I","N","D"," "," ","T","H","E"," ",
    "B","A","S","T","A","R","D","S">>

\* The pieces the titles are made of.
NormSegments ==
  { <<"a">>, <<" ">>, <<"\t">>, <<"|">>, <<FWBAR>>, <<FWCOLON>>,
    BRAND, Lower(BRAND), BrandWide }

RECURSIVE Concat(_)
Concat(segs) ==
  IF Len(segs) = 0 THEN <<>> ELSE segs[1] \o Concat(Drop(segs, 2))

NormTitles == {Concat(q) : q \in SeqsUpTo(NormSegments, MaxSegs)}

NormalizeInit ==
  /\ pc = "start"
  /\ title \in NormTitles
  /\ title_b = <<>>
  /\ out = None
  /\ out2 = None
  /\ matches = <<>>
  /\ MatchIdle
  /\ RenameIdle

\* normalize_title(title)
Normalize ==
  /\ pc = "start"
  /\ out' = Some(normalize_title(title))
  /\ pc' = "once"
  /\ UNCHANGED <<title, title_b, out2, matches>>
  /\ UNCHANGED matchVars
  /\ UNCHANGED renameVars

\* normalize_title of the result
NormalizeAgain ==
  /\ pc = "once"
  /\ out2' = Some(normalize_title(out[1]))
  /\ pc' = "twice"
  /\ UNCHANGED <<title, title_b, out, matches>>
  /\ UNCHANGED matchVars
  /\ UNCHANGED renameVars

NormalizeNext == Normalize \/ NormalizeAgain

SpecNormalize == NormalizeInit /\ [][NormalizeNext]_vars

\* C9: normalize_title(normalize_title(x)) = normalize_title(x).
C9_NormalizeIdempotent == pc = "twice" => out2 = out

\* ------------------------------------------------------------------------
\* extract_part_number applied to a title
\* ------------------------------------------------------------------------

MaxDigits == 2

PartLeads == { <<>>, <<"x">>, <<" ">> }

PartHeads ==
  { LitPart, <<"p","A","R","T">>, LitPt, <<"P","T">>, <<"P","a","r">> }

PartGaps == { <<>>, <<" ">>, <<"\t"," ">> }

PartNumerals ==
  { <<>>, <<"O","n","e">>, <<"T","E","N">>, <<"s","e","v","e","n">>,
    <<"E","l","e","v","e","n">>, <<"O","n","e","1">> }
    \cup (SeqsUpTo({"0", "1", "9"}, MaxDigits) \ {<<>>})

PartSeps == { <<>>, <<":">>, <<FWCOLON>>, <<" ",":">> }

PartTails == { <<>>, <<" ","E","p">> }

PartTitles ==
  { a \o b \o c \o d \o e \o f :
      a \in PartLeads, b \in PartHeads, c \in PartGaps,
      d \in PartNumerals, e \in PartSeps, f \in PartTails }

ExtractInit ==
  /\ pc = "start"
  /\ title \in PartTitles
  /\ title_b = <<>>
  /\ out = None
  /\ out2 = None
  /\ matches = <<>>
  /\ MatchIdle
  /\ RenameIdle

\* extract_part_number(title)
ExtractPart ==
  /\ pc = "start"
  /\ out' = extract_part_number(title)
  /\ pc' = "done"
  /\ UNCHANGED <<title, title_b, out2, matches>>
  /\ UNCHANGED matchVars
  /\ UNCHANGED renameVars

\* normalize_for_comparison(title), for the title whose part number was
\* extracted.
NormalizeForComparison ==
  /\ pc = "done"
  /\ out2' = Some(normalize_for_comparison(title))
  /\ pc' = "stripped"
  /\ UNCHANGED <<title, title_b, out, matches>>
  /\ UNCHANGED matchVars
  /\ UNCHANGED renameVars

ExtractNext == ExtractPart \/ NormalizeForComparison

SpecExtract == ExtractInit /\ [][ExtractNext]_vars

\* The number words One..Ten, lower-cased.
NumberWords == {part_words[k] : k \in 1..10}

\* t begins with head, then w >= 1 whitespace characters, then a numeral of
\* n >= 1 characters, then a colon, ASCII or full-width.
MarkerWith(t, head, wordsAllowed) ==
  \E w \in 1..Len(t), n \in 1..Len(t) :
    LET h == Len(head)
        num == SubSeq(t, h + w + 1, h + w + n)
    IN  /\ h + w + n + 1 <= Len(t)
        /\ Lower(SubSeq(t, 1, h)) = Lower(head)
        /\ \A k \in (h + 1)..(h + w) : IsSpace(t[k])
        /\ \/ wordsAllowed /\ Lower(num) \in NumberWords
           \/ \A k \in 1..n : IsDigit(num[k])
        /\ IsColon(t[h + w + n + 1])

StartsWithPartMarker(t) ==
  MarkerWith(t, LitPart, TRUE) \/ MarkerWith(t, LitPt, FALSE)

\* C10: extract_part_number returns a number only for a title that begins,
\* at its first character, with Part + whitespace + (One..Ten or digits) or
\* Pt + whitespace + digits, followed at once by a colon; for every other
\* title it returns None.
C10_PartOnlyAtStartWithColon ==
  pc = "done" => (out # None => StartsWithPartMarker(title))

\* None was returned for a title that holds a complete marker after its
\* first character.
C10_Witness ==
  /\ pc = "done"
  /\ out = None
  /\ Len(title) > 1
  /\ StartsWithPartMarker(Drop(title, 2))

\* The numeral of a title that begins with Part or Pt and whitespace: the
\* run of digits after the whitespace (empty for a word form).
DigitNumeral(t) ==
  LET h == IF MatchLitAt(t, 1, LitPart) THEN Len(LitPart) ELSE Len(LitPt)
      p == SkipSpace(t, h + 1)
  IN  SubSeq(t, p, SkipDigits(t, p) - 1)

AllZeros(num) == Len(num) > 0 /\ \A k \in 1..Len(num) : num[k] = "0"

\* C11 as stated: every value extract_part_number returns is a positive
\* integer (>= 1), for the digit forms as well as the word forms.
C11_PartNumberPositive ==
  pc = "done" => (out # None => out[1] >= 1)

\* C11, amended: every value extract_part_number returns is a non-negative
\* integer; it is 0 exactly when the marker's numeral is a run of zeros
\* (Part 0:, Pt 00:), and at least 1 for every word form and every other
\* digit form.
C11_PartNumberNatural ==
  pc = "done" =>
    (out # None =>
       /\ out[1] \in Nat
       /\ (out[1] = 0 <=> AllZeros(DigitNumeral(title))))

\* The number 0 was extracted from a digit form.
C11_Witness ==
  /\ pc = "done"
  /\ out = Some(0)
  /\ AllZeros(DigitNumeral(title))

\* C14: for every title from which extract_part_number returns a number,
\* the result of normalize_for_comparison does not begin with a part marker,
\* whether the marker's colon is ASCII or full-width.
C14_MarkerRemoved ==
  (pc = "stripped" /\ out # None) => ~StartsWithPartMarker(out2[1])

\* ------------------------------------------------------------------------
\* similarity_score applied to two titles
\* ------------------------------------------------------------------------

MaxBody == 2

ScoreHeads ==
  { <<>>,
    <<"P","a","r","t"," ","O","n","e",":"," ">>,
    <<"P","A","R","T"," ","t","w","o",":"," ">>,
    <<"P","a","r","t"," ","1",FWCOLON>>,
    <<"P","a","r","t"," ","0",":">>,
    <<"P","t"," ","2",":"," ">> }

ScoreTitles ==
  {h \o e : h \in ScoreHeads, e \in SeqsUpTo({"E", "p"}, MaxBody)}

ScoreInit ==
  /\ pc = "start"
  /\ title \in ScoreTitles
  /\ title_b \in ScoreTitles
  /\ out = None
  /\ out2 = None
  /\ matches = <<>>
  /\ MatchIdle
  /\ RenameIdle

\* similarity_score(title, title_b)
Score ==
  /\ pc = "start"
  /\ out' = Some(similarity_score(title, title_b))
  /\ pc' = "scored"
  /\ UNCHANGED <<title, title_b, out2, matches>>
  /\ UNCHANGED matchVars
  /\ UNCHANGED renameVars

ScoreNext == Score

SpecScore == ScoreInit /\ [][ScoreNext]_vars

\* Both titles carry a part number and the two numbers differ.
PartsDisagree(a, b) ==
  /\ extract_part_number(a) # None
  /\ extract_part_number(b) # None
  /\ extract_part_number(a) # extract_part_number(b)

\* C12: when both part numbers are present and unequal the score is 3/10 of
\* the ratio of the two normalize_for_comparison results, lower-cased, and
\* so at most 3/10; in every other case it is 7/10 of the ratio of the
\* normalize_title results plus 3/10 of that ratio.
C12_PenaltyBranch ==
  pc = "scored" =>
    LET base == Ratio(Lower(normalize_for_comparison(title)),
                      Lower(normalize_for_comparison(title_b)))
        full == Ratio(Lower(normalize_title(title)),
                      Lower(normalize_title(title_b)))
    IN  IF PartsDisagree(title, title_b)
          THEN /\ ScoreEQ(out[1], <<3 * base[1], 10 * base[2]>>)
               /\ ~ScoreGT(out[1], <<3, 10>>)
          ELSE ScoreEQ(out[1], <<7 * full[1] * base[2] + 3 * base[1] * full[2],
                                 10 * full[2] * base[2]>>)

\* Two titles with different part numbers and the same episode name: the
\* score is 3/10 although the full titles are more alike than that.
C12_Witness ==
  /\ pc = "scored"
  /\ PartsDisagree(title, title_b)
  /\ ScoreEQ(out[1], <<3, 10>>)
  /\ ScoreGT(Ratio(Lower(normalize_title(title)),
                   Lower(normalize_title(title_b))), <<3, 10>>)

\* C13: similarity_score(x, x) is 1 for every title x, the empty string and
\* the titles with a part marker included.
C13_SelfSimilarity ==
  (pc = "scored" /\ title = title_b) => ScoreEQ(out[1], <<1, 1>>)

\* The empty string, or a title with a part marker, was scored against
\* itself.
C13_Witness ==
  /\ pc = "scored"
  /\ title = title_b
  /\ title = <<>> \/ extract_part_number(title) # None
  /\ ScoreEQ(out[1], <<1, 1>>)

\* ------------------------------------------------------------------------
\* The name rename_files builds, given back to its already-prefixed test
\* ------------------------------------------------------------------------

MaxPlaylistLen == 12

\* One record: any playlist position as its order, any of the file names.
PrefixInit ==
  /\ pc = "start"
  /\ matches \in {<<[order |-> n, mp3_file |-> f, file_index |-> 0]>> :
                    n \in 1..MaxPlaylistLen,
                    f \in {NameX, Name02X, Name002X}}
  /\ pad_width \in 1..DefaultPadWidth
  /\ files1 = <<>>
  /\ fs = {}
  /\ dry_run = TRUE
  /\ pos = 0
  /\ counts = <<0, 0, 0>>
  /\ run = 0
  /\ moves = <<>>
  /\ fs_hist = <<>>
  /\ modes = <<>>
  /\ returns = <<>>
  /\ TextIdle
  /\ MatchIdle

\* order_prefix and new_filename of the record.
BuildName ==
  /\ pc = "start"
  /\ out' = Some(NewFilename(matches[1].order, matches[1].mp3_file,
                             pad_width))
  /\ pc' = "named"
  /\ UNCHANGED <<title, title_b, out2, matches>>
  /\ UNCHANGED matchVars
  /\ UNCHANGED renameVars

\* The already-prefixed test on a record whose mp3_file is that name.
CheckPrefix ==
  /\ pc = "named"
  /\ out2' = Some(HasOrderPrefix(out[1], pad_width))
  /\ pc' = "checked"
  /\ UNCHANGED <<title, title_b, out, matches>>
  /\ UNCHANGED matchVars
  /\ UNCHANGED renameVars

PrefixNext == BuildName \/ CheckPrefix

SpecPrefix == PrefixInit /\ [][PrefixNext]_vars

\* C19: the name built for any order and pad width passes the
\* already-prefixed test made with that pad width, orders with more digits
\* than pad_width included.
C19_ProducedNameIsSkipped == pc = "checked" => out2 = Some(TRUE)

=============================================================================
